---- MODULE Spec2Model ----
(***************************************************************************)
(* Model of go-paginate (src/paginate.go): the parameter resolver          *)
(* GetPaginationParamsWithDefault, the page computer GetPage and its       *)
(* mapped variant GetPageMapped, run against a query that implements the   *)
(* PQ interface and records every call made on it.                         *)
(***************************************************************************)
EXTENDS Integers, Sequences, FiniteSets, TLC

(* ------------------------------ bounds --------------------------------- *)

\* Raw "page" integers range over -1..MaxPage, raw "per_page" integers over
\* -1..MaxPerPage, the caller's defaults over 0..MaxDefault, and the stored
\* collection holds 0..MaxTotal items.
MaxPage == 3

MaxPerPage == 3

MaxDefault == 2

MaxTotal == 5

(* ------------------------------ values --------------------------------- *)

ParamPage == "page"

ParamPerPage == "per_page"

\* A nil error and the two errors the query can be set up to fail with.
NoErr == "nil"

ErrCount == "count: connection refused"

ErrAll == "all: context deadline exceeded"

\* A nil *PaginatedList.
NilList == [nil |-> TRUE]

\* A query parameter as it arrives: missing, not an integer, or an integer.
Absent == [kind |-> "absent", val |-> 0]

Unparsable == [kind |-> "unparsable", val |-> 0]

IntRaw(n) == [kind |-> "int", val |-> n]

RawValues(max) == {Absent, Unparsable} \cup {IntRaw(n) : n \in -1..max}

\* int(math.Ceil(+Inf)) is implementation-dependent in Go: amd64 builds give
\* the smallest int, arm64 builds the largest.  IntMin and IntMax stand for
\* them; only their order against the page numbers matters to the code.
IntMax == 2^30

IntMin == -IntMax

Archs == {"amd64", "arm64"}

FloatInfToInt(arch) == IF arch = "amd64" THEN IntMin ELSE IntMax

Max(a, b) == IF a >= b THEN a ELSE b

Min(a, b) == IF a <= b THEN a ELSE b

(* --------------------------- the request ------------------------------- *)

\* gc.Request: an http GET of /items on example.com.
Request == [base |-> "http://example.com/items"]

\* fmt.Sprintf("%d", n)
FmtInt(n) == ToString(n)

PageQueryParams(page, perPage) ==
    [k \in {ParamPage, ParamPerPage} |->
        IF k = ParamPage THEN FmtInt(page) ELSE FmtInt(perPage)]

\* The request's URL with the given parameters overwritten; url.Values
\* encodes its keys in sorted order, "page" before "per_page".
RequestUrlWithQueryParams(req, q) ==
    req.base \o "?" \o ParamPage \o "=" \o q[ParamPage]
             \o "&" \o ParamPerPage \o "=" \o q[ParamPerPage]

UrlWithPage(req, page, perPage) ==
    RequestUrlWithQueryParams(req, PageQueryParams(page, perPage))

RequestBaseUrl(req) == req.base

(* ------------------------ Parameter resolver --------------------------- *)

\* gin's ShouldBind on a PaginatedParams: the form is parsed, then the fields
\* are bound in declaration order, Page before PerPage, and binding stops at
\* the first value that is not an integer.  A missing value leaves the zero
\* value.  formErr: the request's form itself cannot be parsed.
ShouldBind(formErr, rawPage, rawPerPage) ==
    IF formErr THEN [err |-> TRUE, Page |-> 0, PerPage |-> 0]
    ELSE IF rawPage.kind = "unparsable"
    THEN [err |-> TRUE, Page |-> 0, PerPage |-> 0]
    ELSE IF rawPerPage.kind = "unparsable"
    THEN [err |-> TRUE, Page |-> rawPage.val, PerPage |-> 0]
    ELSE [err |-> FALSE, Page |-> rawPage.val, PerPage |-> rawPerPage.val]

\* The resolver without the reset of both fields on a binding error: each
\* field is judged by what binding left in it.
ResolveEachFieldAlone(formErr, rawPage, rawPerPage, defaultPage, defaultPerPage) ==
    LET b  == ShouldBind(formErr, rawPage, rawPerPage)
        p1 == [Page |-> b.Page, PerPage |-> b.PerPage]
        p2 == IF p1.Page < 1 THEN [p1 EXCEPT !.Page = defaultPage] ELSE p1
    IN  IF p2.PerPage < 1 THEN [p2 EXCEPT !.PerPage = defaultPerPage] ELSE p2

GetPaginationParamsWithDefault(formErr, rawPage, rawPerPage, defaultPage, defaultPerPage) ==
    LET b  == ShouldBind(formErr, rawPage, rawPerPage)
        p1 == IF b.err THEN [Page |-> defaultPage, PerPage |-> defaultPerPage]
                       ELSE [Page |-> b.Page, PerPage |-> b.PerPage]
        p2 == IF p1.Page < 1 THEN [p1 EXCEPT !.Page = defaultPage] ELSE p1
    IN  IF p2.PerPage < 1 THEN [p2 EXCEPT !.PerPage = defaultPerPage] ELSE p2

(* ------------------------- the query (PQ) ------------------------------ *)

\* No Limit call made yet.
NoLimit == -1

NewQuery(total, countErr, allErr) ==
    [total |-> total, countErr |-> countErr, allErr |-> allErr,
     offset |-> 0, limit |-> NoLimit, calls |-> <<>>]

Count(q) ==
    [query |-> [q EXCEPT !.calls = Append(@, <<"Count">>)],
     count |-> IF q.countErr = NoErr THEN q.total ELSE 0,
     err   |-> q.countErr]

Offset(q, n) == [q EXCEPT !.offset = n, !.calls = Append(@, <<"Offset", n>>)]

Limit(q, n) == [q EXCEPT !.limit = n, !.calls = Append(@, <<"Limit", n>>)]

\* The items at positions offset+1 .. offset+limit of the ordered collection
\* 1..total; item k is the k-th of the collection.
All(q) ==
    LET lo == Max(q.offset, 0) + 1
        hi == IF q.limit = NoLimit THEN q.total
              ELSE Min(q.total, q.offset + q.limit)
        n  == Max(hi - lo + 1, 0)
    IN  [query |-> [q EXCEPT !.calls = Append(@, <<"All">>)],
         rows  |-> IF q.allErr = NoErr THEN [i \in 1..n |-> lo + i - 1]
                   ELSE <<>>,
         err   |-> q.allErr]

(* --------------------------- Page computer ----------------------------- *)

\* The item handed to the mapper is row k of the collection; the mapper
\* projects it and records the index it was given.
Mapper(row, i) == [item |-> row, index |-> i]

\* A failure swallowed: an empty result and no error.
FailKeepsGoing(err, q) ==
    [list |-> [Total |-> 0, PerPage |-> 0, CurrentPage |-> 1, LastPage |-> 1,
               FirstPageUrl |-> "", LastPageUrl |-> "", NextPageUrl |-> "",
               PrevPageUrl |-> "", Path |-> "", From |-> 0, To |-> 0,
               Data |-> <<>>],
     err |-> NoErr, query |-> q]

\* return nil, err
Fail(err, q) == [list |-> NilList, err |-> err, query |-> q]

\* The result of the empty collection, with the requested page kept.
EmptyListKeepsPage(req, params) ==
    [Total        |-> 0,
     PerPage      |-> params.PerPage,
     CurrentPage  |-> params.Page,
     LastPage     |-> 1,
     FirstPageUrl |-> UrlWithPage(req, params.Page, params.PerPage),
     LastPageUrl  |-> "",
     NextPageUrl  |-> "",
     PrevPageUrl  |-> "",
     Path         |-> RequestBaseUrl(req),
     From         |-> 0,
     To           |-> 0,
     Data         |-> <<>>]

EmptyList(req, params) ==
    [Total        |-> 0,
     PerPage      |-> params.PerPage,
     CurrentPage  |-> 1,
     LastPage     |-> 1,
     FirstPageUrl |-> UrlWithPage(req, 1, params.PerPage),
     LastPageUrl  |-> "",
     NextPageUrl  |-> "",
     PrevPageUrl  |-> "",
     Path         |-> RequestBaseUrl(req),
     From         |-> 0,
     To           |-> 0,
     Data         |-> <<>>]

\* Rounding the quotient down instead of up.
FloorDiv(count, perPage, arch) ==
    IF perPage = 0 THEN FloatInfToInt(arch)
    ELSE IF perPage > 0 THEN count \div perPage
    ELSE -((count + (-perPage) - 1) \div (-perPage))

\* int(math.Ceil(float64(count) / float64(perPage))), count > 0.  The float64
\* quotient is exact for the sizes modelled; a zero divisor gives +Inf.
CeilDiv(count, perPage, arch) ==
    IF perPage = 0 THEN FloatInfToInt(arch)
    ELSE IF perPage > 0 THEN (count + perPage - 1) \div perPage
    ELSE -(count \div (-perPage))

LastPage(li) == IF li <= 1 THEN 1 ELSE li

LastPageUrl(req, li, perPage) ==
    IF li <= 1 THEN "" ELSE UrlWithPage(req, li, perPage)

\* A next link that is kept on the last page.
NextPageUrlOffByOne(req, ni, li, perPage) ==
    IF ni > li + 1 THEN "" ELSE UrlWithPage(req, ni, perPage)

\* li is the last page after its floor of 1.
NextPageUrl(req, ni, li, perPage) ==
    IF ni > li THEN "" ELSE UrlWithPage(req, ni, perPage)

\* A previous link that is dropped on page 2 as well.
PrevPageUrlOffByOne(req, pi, perPage) ==
    IF pi <= 1 THEN "" ELSE UrlWithPage(req, pi, perPage)

PrevPageUrl(req, pi, perPage) ==
    IF pi < 1 THEN "" ELSE UrlWithPage(req, pi, perPage)

\* An offset counted from the requested page instead of the one before it.
FetchOffsetOfPage(pi, perPage) == (pi + 1) * perPage

FetchOffset(pi, perPage) == pi * perPage

FromIndex(pi, perPage) == pi * perPage + 1

\* int(math.Min(float64(page*perPage), float64(count)))
ToIndex(page, perPage, count) == Min(page * perPage, count)

GetPage(req, query, params, arch) ==
    LET ni == params.Page + 1
        pi == params.Page - 1
        c  == Count(query)
    IN  IF c.err # NoErr THEN Fail(c.err, c.query)
        ELSE IF 0 = c.count
        THEN [list |-> EmptyList(req, params), err |-> NoErr, query |-> c.query]
        ELSE
        LET from == FromIndex(pi, params.PerPage)
            to   == ToIndex(params.Page, params.PerPage, c.count)
            q1   == Offset(c.query, FetchOffset(pi, params.PerPage))
            q2   == Limit(q1, params.PerPage)
            a    == All(q2)
        IN  IF a.err # NoErr THEN Fail(a.err, a.query)
            ELSE
            LET raw == CeilDiv(c.count, params.PerPage, arch)
                li  == LastPage(raw)
            IN  [list |->
                   [Total        |-> c.count,
                    PerPage      |-> params.PerPage,
                    CurrentPage  |-> params.Page,
                    LastPage     |-> li,
                    FirstPageUrl |-> UrlWithPage(req, 1, params.PerPage),
                    LastPageUrl  |-> LastPageUrl(req, raw, params.PerPage),
                    NextPageUrl  |-> NextPageUrl(req, ni, li, params.PerPage),
                    PrevPageUrl  |-> PrevPageUrl(req, pi, params.PerPage),
                    Path         |-> RequestBaseUrl(req),
                    From         |-> from,
                    To           |-> to,
                    Data         |-> a.rows],
                 err |-> NoErr, query |-> a.query]

\* The mapper handed the 1-based position instead of the slice index.
MapDataOneBased(rows) == [i \in 1..Len(rows) |-> Mapper(rows[i], i)]

\* for i, row := range list.Data { data[i] = mapper(row, i) }: Go's slice
\* index of the k-th row is k-1.
MapData(rows) == [i \in 1..Len(rows) |-> Mapper(rows[i], i - 1)]

\* mapperCalls: the (row, index) pairs the mapper was invoked with, in order.
GetPageMapped(req, query, params, arch) ==
    LET r == GetPage(req, query, params, arch)
    IN  IF r.err # NoErr
        THEN [list |-> NilList, err |-> r.err, query |-> r.query,
              mapperCalls |-> <<>>]
        ELSE [list |->
                [Total        |-> r.list.Total,
                 PerPage      |-> r.list.PerPage,
                 CurrentPage  |-> r.list.CurrentPage,
                 LastPage     |-> r.list.LastPage,
                 FirstPageUrl |-> r.list.FirstPageUrl,
                 LastPageUrl  |-> r.list.LastPageUrl,
                 NextPageUrl  |-> r.list.NextPageUrl,
                 PrevPageUrl  |-> r.list.PrevPageUrl,
                 Path         |-> r.list.Path,
                 From         |-> r.list.From,
                 To           |-> r.list.To,
                 Data         |-> MapData(r.list.Data)],
              err |-> NoErr, query |-> r.query,
              mapperCalls |->
                [i \in 1..Len(r.list.Data) |-> <<r.list.Data[i], i - 1>>]]

(* --------------------------- state machine ----------------------------- *)

VARIABLES
    formErr,        \* the request's form cannot be parsed
    rawPage,        \* the request's "page" parameter
    rawPerPage,     \* the request's "per_page" parameter
    defaultPage,    \* the caller's defaults
    defaultPerPage,
    query,          \* the query handed to GetPage and GetPageMapped
    arch,           \* the build's float-to-int conversion
    params,         \* the resolved PaginatedParams
    pageRes,        \* what GetPage returned
    mappedRes,      \* what GetPageMapped returned
    done            \* the calls made so far

inputs == <<formErr, rawPage, rawPerPage, defaultPage, defaultPerPage, query, arch>>

vars == <<inputs, params, pageRes, mappedRes, done>>

NotCalled == [list |-> NilList, err |-> NoErr]

Init ==
    /\ formErr \in BOOLEAN
    /\ rawPage \in RawValues(MaxPage)
    /\ rawPerPage \in RawValues(MaxPerPage)
    /\ defaultPage \in 0..MaxDefault
    /\ defaultPerPage \in 0..MaxDefault
    /\ \E total \in 0..MaxTotal, ce \in {NoErr, ErrCount}, ae \in {NoErr, ErrAll} :
          query = NewQuery(total, ce, ae)
    /\ arch \in Archs
    /\ params = [Page |-> 0, PerPage |-> 0]
    /\ pageRes = NotCalled
    /\ mappedRes = NotCalled
    /\ done = {}

\* The handler resolves the request's parameters.
Resolve ==
    /\ "resolve" \notin done
    /\ params' = GetPaginationParamsWithDefault(formErr, rawPage, rawPerPage,
                                                 defaultPage, defaultPerPage)
    /\ done' = done \cup {"resolve"}
    /\ UNCHANGED <<inputs, pageRes, mappedRes>>

CallGetPage ==
    /\ "resolve" \in done
    /\ "GetPage" \notin done
    /\ pageRes' = GetPage(Request, query, params, arch)
    /\ done' = done \cup {"GetPage"}
    /\ UNCHANGED <<inputs, params, mappedRes>>

CallGetPageMapped ==
    /\ "resolve" \in done
    /\ "GetPageMapped" \notin done
    /\ mappedRes' = GetPageMapped(Request, query, params, arch)
    /\ done' = done \cup {"GetPageMapped"}
    /\ UNCHANGED <<inputs, params, pageRes>>

Next == Resolve \/ CallGetPage \/ CallGetPageMapped

Spec == Init /\ [][Next]_vars

(* ------------------------------ claims --------------------------------- *)

PageDone == "GetPage" \in done

MappedDone == "GetPageMapped" \in done

\* The parameters are resolved: page >= 1 and per_page >= 1.
Valid == params.Page >= 1 /\ params.PerPage >= 1

PageOk == PageDone /\ pageRes.err = NoErr

\* The least n with n * perPage >= total: ceil(total / perPage) for perPage >= 1.
Ceil(total, perPage) ==
    CHOOSE n \in 0..total :
        /\ n * perPage >= total
        /\ \A m \in 0..total : m * perPage >= total => n <= m

\* A link to page p with pp items per page, as the client reads it.
LinkTo(p, pp) ==
    "http://example.com/items?page=" \o ToString(p) \o "&per_page=" \o ToString(pp)

\* The calls of one kind in a call log.
CallsOf(calls, name) == {i \in 1..Len(calls) : calls[i][1] = name}

\* C1: for every total >= 0 and per_page >= 1 (any resolved page >= 1) the
\* result of GetPage has last_page = max(1, ceil(total / per_page)).
C1_LastPage ==
    (PageOk /\ Valid) =>
        pageRes.list.LastPage = Max(1, Ceil(query.total, params.PerPage))

\* Five items in pages of two: three pages, the last one short.
C1_Witness ==
    /\ PageOk /\ Valid
    /\ query.total = 5 /\ params.PerPage = 2
    /\ pageRes.list.LastPage = 3

\* C2: when the count reports total = 0, GetPage returns current_page = 1,
\* last_page = 1, from = 0, to = 0, empty data, empty last/next/prev links and
\* a non-empty first link to page 1 with the resolved per_page, whatever page
\* and per_page were requested.
C2_EmptyCollection ==
    (PageDone /\ query.countErr = NoErr /\ query.total = 0) =>
        /\ pageRes.err = NoErr
        /\ pageRes.list # NilList
        /\ pageRes.list.Total = 0
        /\ pageRes.list.CurrentPage = 1
        /\ pageRes.list.LastPage = 1
        /\ pageRes.list.From = 0
        /\ pageRes.list.To = 0
        /\ pageRes.list.Data = <<>>
        /\ pageRes.list.LastPageUrl = ""
        /\ pageRes.list.NextPageUrl = ""
        /\ pageRes.list.PrevPageUrl = ""
        /\ pageRes.list.FirstPageUrl # ""
        /\ pageRes.list.FirstPageUrl = LinkTo(1, params.PerPage)

\* Page 3 requested of an empty collection.
C2_Witness ==
    /\ PageDone /\ query.countErr = NoErr /\ query.total = 0
    /\ params.Page = 3 /\ params.PerPage = 2
    /\ pageRes.list.CurrentPage = 1

\* C3: for every resolved page >= 1 and per_page >= 1 with total > 0 the
\* result has from = (page-1)*per_page + 1, to = min(page*per_page, total)
\* and from <= to; from and to are both 0 only for the empty collection.
C3_FromTo ==
    (PageOk /\ Valid) =>
        /\ query.total > 0 =>
             /\ pageRes.list.From = (params.Page - 1) * params.PerPage + 1
             /\ pageRes.list.To = Min(params.Page * params.PerPage, query.total)
             /\ pageRes.list.From <= pageRes.list.To
        /\ (pageRes.list.From = 0 /\ pageRes.list.To = 0) => query.total = 0

\* C4: in every result current_page >= 1 and, clamped to the last valid page,
\* 1 <= current_page <= last_page.
C4_CurrentPageInRange ==
    (PageOk /\ Valid) =>
        /\ 1 <= pageRes.list.CurrentPage
        /\ pageRes.list.CurrentPage <= pageRes.list.LastPage

\* C5: next_page_url is empty if and only if page >= last_page; when it is
\* not empty it is the link to page + 1 with the resolved per_page.
C5_NextPageUrl ==
    (PageOk /\ Valid) =>
        /\ pageRes.list.NextPageUrl = "" <=> params.Page >= pageRes.list.LastPage
        /\ pageRes.list.NextPageUrl # "" =>
             pageRes.list.NextPageUrl = LinkTo(params.Page + 1, params.PerPage)

\* Page 2 of 3 links to page 3.
C5_Witness ==
    /\ PageOk /\ Valid
    /\ params.Page = 2 /\ pageRes.list.LastPage = 3
    /\ pageRes.list.NextPageUrl = LinkTo(3, params.PerPage)

\* C6 as stated: for any total >= 0, prev_page_url is empty if and only if
\* page <= 1; when it is not empty it is the link to page - 1.
C6_PrevPageUrlAnyTotal ==
    (PageOk /\ Valid) =>
        /\ pageRes.list.PrevPageUrl = "" <=> params.Page <= 1
        /\ pageRes.list.PrevPageUrl # "" =>
             pageRes.list.PrevPageUrl = LinkTo(params.Page - 1, params.PerPage)

\* C6 amended: prev_page_url is empty if and only if page <= 1 or the
\* collection is empty; when it is not empty it is the link to page - 1 with
\* the resolved per_page.
C6_PrevPageUrl ==
    (PageOk /\ Valid) =>
        /\ pageRes.list.PrevPageUrl = "" <=>
             (params.Page <= 1 \/ query.total = 0)
        /\ pageRes.list.PrevPageUrl # "" =>
             pageRes.list.PrevPageUrl = LinkTo(params.Page - 1, params.PerPage)

\* Page 2 requested of an empty collection: no previous link.
C6_Witness ==
    /\ PageOk /\ Valid
    /\ params.Page = 2 /\ query.total = 0
    /\ pageRes.list.PrevPageUrl = ""

\* What a failed call must leave behind: nothing but the error.
CountFailed == query.countErr # NoErr

FetchFailed == query.countErr = NoErr /\ query.total > 0 /\ query.allErr # NoErr

OnlyError(res, err) == res.list = NilList /\ res.err = err

\* C7: if the count or the paged fetch fails, GetPage and GetPageMapped return
\* a nil list and exactly the failing operation's error; nothing is
\* synthesized or retried, and GetPageMapped never invokes the mapper.
C7_FailurePropagates ==
    /\ (PageDone /\ CountFailed) =>
          /\ OnlyError(pageRes, query.countErr)
          /\ pageRes.query.calls = << <<"Count">> >>
    /\ (PageDone /\ FetchFailed) =>
          /\ OnlyError(pageRes, query.allErr)
          /\ Cardinality(CallsOf(pageRes.query.calls, "Count")) = 1
          /\ Cardinality(CallsOf(pageRes.query.calls, "All")) = 1
    /\ (MappedDone /\ CountFailed) =>
          /\ OnlyError(mappedRes, query.countErr)
          /\ mappedRes.query.calls = << <<"Count">> >>
          /\ mappedRes.mapperCalls = <<>>
    /\ (MappedDone /\ FetchFailed) =>
          /\ OnlyError(mappedRes, query.allErr)
          /\ Cardinality(CallsOf(mappedRes.query.calls, "Count")) = 1
          /\ Cardinality(CallsOf(mappedRes.query.calls, "All")) = 1
          /\ mappedRes.mapperCalls = <<>>

\* The fetch of page 2 failed under GetPageMapped, the count having succeeded.
C7_Witness ==
    /\ MappedDone /\ FetchFailed /\ Valid
    /\ params.Page = 2
    /\ mappedRes.err = ErrAll
    /\ mappedRes.list = NilList

\* C8: when GetPage succeeds, GetPageMapped on the same inputs returns data of
\* the same length and order with data[i] = mapper(original.data[i], i) for
\* every slice index i, and every other field equal to GetPage's.
C8_MappedRefinesPage ==
    (PageOk /\ MappedDone) =>
        /\ mappedRes.err = NoErr
        /\ mappedRes.list # NilList
        /\ Len(mappedRes.list.Data) = Len(pageRes.list.Data)
        /\ \A i \in 0..(Len(pageRes.list.Data) - 1) :
              mappedRes.list.Data[i + 1] = Mapper(pageRes.list.Data[i + 1], i)
        /\ \A f \in {"Total", "PerPage", "CurrentPage", "LastPage",
                     "FirstPageUrl", "LastPageUrl", "NextPageUrl",
                     "PrevPageUrl", "Path", "From", "To"} :
              mappedRes.list[f] = pageRes.list[f]

\* Both calls made on a page holding at least two rows.
C8_Witness ==
    /\ PageOk /\ MappedDone
    /\ Len(pageRes.list.Data) >= 2
    /\ mappedRes.list.Data[2] = Mapper(pageRes.list.Data[2], 1)
    /\ params.Page = 2

\* A raw value that parses as an integer >= 1.
GoodRaw(raw) == raw.kind = "int" /\ raw.val >= 1

\* Binding the request fails: its form cannot be parsed, or one of the two
\* values is not an integer.
BindFails ==
    formErr \/ rawPage.kind = "unparsable" \/ rawPerPage.kind = "unparsable"

\* C9 as stated: each field is resolved on its own, the raw value when it
\* parses as an integer >= 1 and the default otherwise (stated for requests
\* whose form parses).
C9_EachFieldAlone ==
    ("resolve" \in done /\ ~formErr) =>
        /\ params.Page = IF GoodRaw(rawPage) THEN rawPage.val ELSE defaultPage
        /\ params.PerPage =
             IF GoodRaw(rawPerPage) THEN rawPerPage.val ELSE defaultPerPage

\* C9 amended: when binding fails both fields take their defaults; otherwise
\* each field is its raw value when that is an integer >= 1 and its default
\* when absent or < 1.  Valid parameters are returned unchanged.
C9_Resolve ==
    "resolve" \in done =>
        /\ params.Page =
             IF ~BindFails /\ GoodRaw(rawPage) THEN rawPage.val ELSE defaultPage
        /\ params.PerPage =
             IF ~BindFails /\ GoodRaw(rawPerPage) THEN rawPerPage.val
             ELSE defaultPerPage

\* page=3 with a per_page that is not an integer resolves to the default page.
C9_Witness ==
    /\ "resolve" \in done /\ ~formErr
    /\ rawPage = IntRaw(3) /\ rawPerPage = Unparsable
    /\ defaultPage = 1 /\ defaultPerPage = 2
    /\ params = [Page |-> 1, PerPage |-> 2]

\* C10: GetPage invokes Count exactly once and first; the fetch (Offset,
\* Limit, All) follows at most once, only after a successful count with
\* total > 0, with offset = (page-1)*per_page and limit = per_page; after a
\* failed count or total = 0 no Offset, Limit or All call is made.
C10_CallOrder ==
    PageDone =>
        pageRes.query.calls =
            IF query.countErr # NoErr \/ query.total = 0
            THEN << <<"Count">> >>
            ELSE << <<"Count">>,
                    <<"Offset", (params.Page - 1) * params.PerPage>>,
                    <<"Limit", params.PerPage>>,
                    <<"All">> >>

\* Page 2 in pages of 3 was fetched: offset 3, limit 3.
C10_Witness ==
    /\ PageDone /\ Valid
    /\ params.Page = 2 /\ params.PerPage = 3
    /\ Len(pageRes.query.calls) = 4
    /\ pageRes.query.calls[2] = <<"Offset", 3>>
    /\ pageRes.query.calls[3] = <<"Limit", 3>>

====
